---- MODULE Spec2Model ----
(***************************************************************************)
(* A model of src/reader/kubernetes/kubeconfig.rs: decoding of a           *)
(* kubeconfig document, resolution of its current context, the exec        *)
(* credential plugin, and the construction of the Kubernetes client.       *)
(*                                                                         *)
(* Strings whose characters matter (server, request path, token, plugin    *)
(* output) are sequences of one-character strings; names are strings.      *)
(* Option<T> is a record [some |-> FALSE] or [some |-> TRUE, val |-> x].   *)
(* Result<T> is [ok |-> TRUE, val |-> x] or [ok |-> FALSE, err |-> e].     *)
(***************************************************************************)
EXTENDS Integers, Sequences, FiniteSets, TLC

VARIABLES
  stage,      \* which operation has run: the position in the pipeline
  raw,        \* the kubeconfig file handed to load: its path and content
  loaded,     \* the value KubernetesConfig::load returned
  config,     \* the decoded KubernetesConfig the resolver reads
  resolved,   \* the value current_context returned
  auth,       \* the Auth that Auth::exec is called on
  spawns,     \* the number of processes the program has tried to launch
  capture,    \* what the process launcher returned for the plugin
  execResult, \* the value Auth::exec returned
  bridged,    \* the Auth made from the plugin's credential
  ctx,        \* the ResolvedContext handed to KubernetesClient::new
  transport,  \* whether the transport library can build a client
  client,     \* the value KubernetesClient::new returned
  request     \* the last request built by get or post

loadVars == <<raw, loaded>>
resolveVars == <<config, resolved>>
execVars == <<auth, spawns, capture, execResult, bridged>>
clientVars == <<ctx, transport, client, request>>
vars == <<stage, raw, loaded, config, resolved, auth, spawns, capture,
          execResult, bridged, ctx, transport, client, request>>

(***************************************************************************)
(* Bounds of the model.                                                    *)
(***************************************************************************)
MaxContexts == 2
MaxUsers == 2
MaxClusters == 2
MaxDocUsers == 1
MaxDocClusters == 1
MaxStderr == 2
MaxServer == 3
MaxPath == 2

None == [some |-> FALSE]
Some(x) == [some |-> TRUE, val |-> x]

Ok(x) == [ok |-> TRUE, val |-> x]
Err(e) == [ok |-> FALSE, err |-> e]

Names == {"a", "b"}
Namespaces == {"ns1"}

SeqsUpTo(S, n) == UNION {[1..k -> S] : k \in 0..n}

Repeat(c, n) == [j \in 1..n |-> c]

\* The parts of the state an operation sequence does not use.
IdleLoad == raw = None /\ loaded = None
IdleResolve == config = None /\ resolved = None
IdleExec ==
  /\ auth = None
  /\ spawns = 0
  /\ capture = None
  /\ execResult = None
  /\ bridged = None

IdleClient ==
  /\ ctx = None
  /\ transport = None
  /\ client = None
  /\ request = None

(***************************************************************************)
(* Context resolution: KubernetesConfig::current_context.                  *)
(***************************************************************************)

\* The i-th users entry of an input document carries an Auth that differs
\* from every other entry's, so that the entry a lookup returned is visible.
UserAuthAt(i) == [tag |-> "Token", token |-> Repeat("t", i)]

\* Likewise for the i-th clusters entry.
ClusterAt(i) ==
  [server |-> Repeat("h", i), insecure_skip_tls_verify |-> FALSE,
   certificate_authority |-> None]

ContextValues ==
  [cluster : Names, user : Names,
   namespace : {None} \cup {Some(n) : n \in Namespaces}]

ContextContainers == [name : Names, context : ContextValues]

ResolverConfig(cc, cs, us, ks) ==
  [current_context |-> cc, contexts |-> cs,
   users |-> [i \in DOMAIN us |->
                [name |-> us[i], user |-> [auth |-> UserAuthAt(i)]]],
   clusters |-> [i \in DOMAIN ks |->
                   [name |-> ks[i], cluster |-> ClusterAt(i)]]]

\* Iterator::find over a list of named containers: the index of the first
\* entry, scanning from i, whose name is n; 0 when there is none.
RECURSIVE FindFrom(_, _, _)
FindFrom(list, n, i) ==
  IF i > Len(list) THEN 0
  ELSE IF list[i].name = n THEN i
  ELSE FindFrom(list, n, i + 1)

\* A lookup that keeps scanning and returns the last entry of that name.
FindLast(list, n) ==
  IF \E i \in DOMAIN list : list[i].name = n
    THEN CHOOSE i \in DOMAIN list :
           /\ list[i].name = n
           /\ \A j \in DOMAIN list : list[j].name = n => j <= i
    ELSE 0

Find(list, n) == FindFrom(list, n, 1)

\* Option<&str>::unwrap_or("default")
NamespaceOf(context) ==
  IF context.namespace.some THEN context.namespace.val ELSE "default"

\* A resolver that tolerates a dangling cluster reference: it falls back to
\* the first cluster of the document when the context's cluster is absent.
current_context_lenient(cfg) ==
  IF ~cfg.current_context.some THEN None
  ELSE LET ci == Find(cfg.contexts, cfg.current_context.val) IN
    IF ci = 0 THEN None
    ELSE LET context == cfg.contexts[ci].context
             ui == Find(cfg.users, context.user) IN
      IF ui = 0 THEN None
      ELSE LET ki == Find(cfg.clusters, context.cluster)
               kj == IF ki = 0 /\ Len(cfg.clusters) > 0 THEN 1 ELSE ki IN
        IF kj = 0 THEN None
        ELSE Some([auth |-> cfg.users[ui].user.auth,
                   cluster |-> cfg.clusters[kj].cluster,
                   namespace |-> NamespaceOf(context)])

current_context(cfg) ==
  IF ~cfg.current_context.some THEN None
  ELSE LET ci == Find(cfg.contexts, cfg.current_context.val) IN
    IF ci = 0 THEN None
    ELSE LET context == cfg.contexts[ci].context
             ui == Find(cfg.users, context.user) IN
      IF ui = 0 THEN None
      ELSE LET ki == Find(cfg.clusters, context.cluster) IN
        IF ki = 0 THEN None
        ELSE Some([auth |-> cfg.users[ui].user.auth,
                   cluster |-> cfg.clusters[ki].cluster,
                   namespace |-> NamespaceOf(context)])

(***************************************************************************)
(* Byte Material: the three deserialize_with strategies.                   *)
(*                                                                         *)
(* A value of the YAML document is [kind |-> "str", s |-> text],           *)
(* [kind |-> "bool", b |-> ...], [kind |-> "map", m |-> function from keys *)
(* to values] or [kind |-> "other"] (a number, a list, ...).  Bytes are    *)
(* sequences of numbers in 0..255.                                         *)
(***************************************************************************)
RawStr(s) == [kind |-> "str", s |-> s]
RawBool(b) == [kind |-> "bool", b |-> b]
RawMap(m) == [kind |-> "map", m |-> m]
RawOther == [kind |-> "other"]

EmptyMap == [k \in {} |-> RawOther]

\* The files of the machine the document is loaded on.  A path outside the
\* domain cannot be opened; an entry that is not readable opens and then
\* fails in read_to_end (a directory).
FileSystem ==
  [p \in {"/pki/ca.crt", "/pki/client.crt", "/pki/client.key", "/pki"} |->
     CASE p = "/pki/ca.crt" -> [readable |-> TRUE, data |-> <<67>>]
       [] p = "/pki/client.crt" -> [readable |-> TRUE, data |-> <<67, 67>>]
       [] p = "/pki/client.key" -> [readable |-> TRUE, data |-> <<75>>]
       [] p = "/pki" -> [readable |-> FALSE, data |-> <<>>]]

BytesFromPathStr(s) ==
  IF s \notin DOMAIN FileSystem THEN Err("unable to open file")
  ELSE IF ~FileSystem[s].readable THEN Err("error reading file")
  ELSE Ok(FileSystem[s].data)

\* Deserializer::deserialize_str: the visitor sees strings only.
de_path_bytes(v) ==
  IF v.kind = "str" THEN BytesFromPathStr(v.s) ELSE Err("invalid type")

\* The digits of the standard base64 alphabet the documents use.
Base64Digit ==
  [c \in {"A", "I", "Q", "U"} |->
     CASE c = "A" -> 0 [] c = "I" -> 8 [] c = "Q" -> 16 [] c = "U" -> 20]

\* One quantum of four characters: 4, 3 or 2 digits followed by padding.
Base64Quantum(q) ==
  LET n == IF q[3] = "=" /\ q[4] = "=" THEN 2 ELSE IF q[4] = "=" THEN 3 ELSE 4
      d(i) == IF i <= n THEN Base64Digit[q[i]] ELSE 0
      word == ((d(1) * 64 + d(2)) * 64 + d(3)) * 64 + d(4)
      all == <<word \div 65536, (word \div 256) % 256, word % 256>>
  IN IF \E i \in 1..n : q[i] \notin DOMAIN Base64Digit THEN Err("invalid byte")
     ELSE Ok(SubSeq(all, 1, n - 1))

RECURSIVE base64_decode(_)
base64_decode(s) ==
  IF Len(s) = 0 THEN Ok(<<>>)
  ELSE IF Len(s) < 4 THEN Err("invalid length")
  ELSE LET head == Base64Quantum(SubSeq(s, 1, 4))
           tail == base64_decode(SubSeq(s, 5, Len(s)))
       IN IF ~head.ok THEN head
          ELSE IF Len(head.val) < 3 /\ Len(s) > 4 THEN Err("invalid byte")
          ELSE IF ~tail.ok THEN tail
          ELSE Ok(head.val \o tail.val)

BytesFromBase64(s) ==
  LET data == base64_decode(s) IN
    IF data.ok THEN data ELSE Err("unable to decode base64 string")

de_base64_bytes(v) ==
  IF v.kind = "str" THEN BytesFromBase64(v.s) ELSE Err("invalid type")

(***************************************************************************)
(* Config decode: what the derived Deserialize implementations do.         *)
(***************************************************************************)

\* A field of a derived struct: absent is an error unless the field has a
\* default; present, it is what the field's decoder makes of the value.
Required(m, k, decoded) ==
  IF k \in DOMAIN m THEN decoded ELSE Err("missing field")

WithDefault(m, k, decoded, dflt) ==
  IF k \in DOMAIN m THEN decoded ELSE Ok(dflt)

de_string(v) == IF v.kind = "str" THEN Ok(v.s) ELSE Err("invalid type")
de_bool(v) == IF v.kind = "bool" THEN Ok(v.b) ELSE Err("invalid type")
de_any(v) == Ok(v)

\* ClusterCertificateAuthority, #[serde(untagged)]: the variants are tried
\* in declaration order and the first that decodes is the value; keys a
\* variant does not know are ignored.  file and embedded are what the two
\* variants make of their field.
ClusterCertificateAuthority_untagged(file, embedded) ==
  IF file.ok THEN Ok([tag |-> "File", certificate |-> file.val])
  ELSE IF embedded.ok
    THEN Ok([tag |-> "Embedded", certificate |-> embedded.val])
  ELSE Err("data did not match any variant")

ClusterCertificateAuthority_deserialize(m) ==
  ClusterCertificateAuthority_untagged(
    Required(m, "certificate-authority",
             de_path_bytes(m["certificate-authority"])),
    Required(m, "certificate-authority-data",
             de_base64_bytes(m["certificate-authority-data"])))

\* #[serde(flatten)] on an Option: the inner value when it decodes from the
\* keys of the enclosing map, None when it does not.
FlattenOption(inner) == IF inner.ok THEN Some(inner.val) ELSE None

\* Cluster, from what its fields decode to: the first error, or the struct.
Cluster_fields(server, skip, ca) ==
  IF ~server.ok THEN server
  ELSE IF ~skip.ok THEN skip
  ELSE Ok([server |-> server.val, insecure_skip_tls_verify |-> skip.val,
           certificate_authority |-> ca])

Cluster_deserialize(v) ==
  IF v.kind # "map" THEN Err("invalid type")
  ELSE Cluster_fields(
         Required(v.m, "server", de_string(v.m["server"])),
         WithDefault(v.m, "insecure-skip-tls-verify",
                     de_bool(v.m["insecure-skip-tls-verify"]), FALSE),
         FlattenOption(ClusterCertificateAuthority_deserialize(v.m)))

ExecAuth_fields(api, command, args, env) ==
  IF ~api.ok THEN api
  ELSE IF ~command.ok THEN command
  ELSE Ok([api_version |-> api.val, command |-> command.val,
           args |-> args.val, env |-> env.val])

ExecAuth_deserialize(v) ==
  IF v.kind # "map" THEN Err("invalid type")
  ELSE ExecAuth_fields(
         Required(v.m, "apiVersion", de_string(v.m["apiVersion"])),
         Required(v.m, "command", de_string(v.m["command"])),
         WithDefault(v.m, "args", de_any(v.m["args"]), <<>>),
         WithDefault(v.m, "env", de_any(v.m["env"]), EmptyMap))

\* Auth, #[serde(untagged)]: Plain, Token, CertificateFile,
\* CertificateEmbedded, Exec, Null in that order, from what the fields of
\* the variants decode to.  Null {} has no fields and decodes from every map.
Auth_untagged(username, password, tok, fcert, fkey, ecert, ekey, plugin) ==
  IF username.ok /\ password.ok
    THEN Ok([tag |-> "Plain", username |-> username.val,
             password |-> password.val])
  ELSE IF tok.ok THEN Ok([tag |-> "Token", token |-> tok.val])
  ELSE IF fcert.ok /\ fkey.ok
    THEN Ok([tag |-> "CertificateFile", certificate |-> fcert.val,
             key |-> fkey.val])
  ELSE IF ecert.ok /\ ekey.ok
    THEN Ok([tag |-> "CertificateEmbedded", certificate |-> ecert.val,
             key |-> ekey.val])
  ELSE IF plugin.ok THEN Ok([tag |-> "Exec", exec |-> plugin.val])
  ELSE Ok([tag |-> "Null"])

Auth_deserialize(m) ==
  Auth_untagged(
    Required(m, "username", de_string(m["username"])),
    Required(m, "password", de_string(m["password"])),
    Required(m, "token", de_string(m["token"])),
    Required(m, "client-certificate", de_path_bytes(m["client-certificate"])),
    Required(m, "client-key", de_path_bytes(m["client-key"])),
    Required(m, "client-certificate-data",
             de_base64_bytes(m["client-certificate-data"])),
    Required(m, "client-key-data", de_base64_bytes(m["client-key-data"])),
    Required(m, "exec", ExecAuth_deserialize(m["exec"])))

\* User: the flattened Auth is decoded from all keys of the user map.
User_fields(flat) == IF flat.ok THEN Ok([auth |-> flat.val]) ELSE flat

User_deserialize(v) ==
  IF v.kind # "map" THEN Err("invalid type")
  ELSE User_fields(Auth_deserialize(v.m))

User_default == [auth |-> [tag |-> "Null"]]

UserContainer_fields(name, user) ==
  IF ~name.ok THEN name
  ELSE IF ~user.ok THEN user
  ELSE Ok([name |-> name.val, user |-> user.val])

UserContainer_deserialize(v) ==
  IF v.kind # "map" THEN Err("invalid type")
  ELSE UserContainer_fields(
         Required(v.m, "name", de_string(v.m["name"])),
         WithDefault(v.m, "user", User_deserialize(v.m["user"]), User_default))

ClusterContainer_fields(name, cluster) ==
  IF ~name.ok THEN name
  ELSE IF ~cluster.ok THEN cluster
  ELSE Ok([name |-> name.val, cluster |-> cluster.val])

ClusterContainer_deserialize(v) ==
  IF v.kind # "map" THEN Err("invalid type")
  ELSE ClusterContainer_fields(
         Required(v.m, "name", de_string(v.m["name"])),
         Required(v.m, "cluster", Cluster_deserialize(v.m["cluster"])))

\* Vec<T>, from what the element decoder makes of each element: every
\* element decodes, or the first error is the result.
de_seq(decoded) ==
  IF \E i \in DOMAIN decoded : ~decoded[i].ok
    THEN decoded[CHOOSE i \in DOMAIN decoded :
                   /\ ~decoded[i].ok
                   /\ \A j \in 1..(i - 1) : decoded[j].ok]
    ELSE Ok([i \in DOMAIN decoded |-> decoded[i].val])

\* KubernetesConfig: the contexts, current-context, apiVersion, kind and
\* preferences of the documents considered are well formed and decode as
\* they are.
KubernetesConfig_fields(doc, clusters, users) ==
  IF ~clusters.ok THEN clusters
  ELSE IF ~users.ok THEN users
  ELSE Ok([current_context |-> doc.current_context,
           contexts |-> doc.contexts,
           users |-> users.val,
           clusters |-> clusters.val])

KubernetesConfig_deserialize(doc) ==
  KubernetesConfig_fields(
    doc,
    de_seq([i \in DOMAIN doc.clusters |->
              ClusterContainer_deserialize(doc.clusters[i])]),
    de_seq([i \in DOMAIN doc.users |->
              UserContainer_deserialize(doc.users[i])]))

\* The context snafu adds to a decode error: ConfigDeserialize { path }.
ConfigDeserialize(path, cfg) ==
  IF cfg.ok THEN cfg
  ELSE Err([kind |-> "ConfigDeserialize", path |-> path, source |-> cfg.err])

\* KubernetesConfig::load
load(file) ==
  IF ~file.content.some
    THEN Err([kind |-> "ConfigRead", path |-> file.path])
    ELSE ConfigDeserialize(file.path,
                           KubernetesConfig_deserialize(file.content.val))

(***************************************************************************)
(* The documents load is applied to.                                       *)
(***************************************************************************)
ConfigPath == "/home/u/.kube/config"

ValidBase64 == {<<"Q", "Q", "=", "=">>, <<"Q", "U", "I", "=">>}
InvalidBase64 == {<<"Q", "!", "Q", "=">>}

PlainParts ==
  {EmptyMap,
   ("username" :> RawStr("admin")) @@ ("password" :> RawStr("secret"))}

TokenParts == {EmptyMap, "token" :> RawStr(<<"a", "b", "c">>)}

CertificateFileParts ==
  {EmptyMap} \cup
  {("client-certificate" :> RawStr(c)) @@ ("client-key" :> RawStr(k)) :
     <<c, k>> \in {<<"/pki/client.crt", "/pki/client.key">>,
                   <<"/pki/gone.crt", "/pki/client.key">>,
                   <<"/pki/client.crt", "/pki">>}}

CertificateEmbeddedParts ==
  {EmptyMap} \cup
  {("client-certificate-data" :> RawStr(c)) @@
     ("client-key-data" :> RawStr(k)) :
     <<c, k>> \in (ValidBase64 \X {<<"Q", "Q", "=", "=">>})
                    \cup ({<<"Q", "U", "I", "=">>} \X InvalidBase64)}

ExecParts ==
  {EmptyMap,
   "exec" :> RawMap(("apiVersion" :> RawStr("v1beta1")) @@
                    ("command" :> RawStr("aws-iam-authenticator")))}

RawUsers ==
  {RawMap(p @@ t @@ f @@ e @@ x) :
     p \in PlainParts, t \in TokenParts, f \in CertificateFileParts,
     e \in CertificateEmbeddedParts, x \in ExecParts}

RawUserContainers(n) ==
  {RawMap(("name" :> RawStr(n)) @@ ("user" :> u)) :
     u \in RawUsers \cup {RawOther}}
  \cup {RawMap("name" :> RawStr(n))}

ServerParts == {EmptyMap, "server" :> RawStr(<<"h", "/">>)}

SkipTlsVerifyParts ==
  {EmptyMap, "insecure-skip-tls-verify" :> RawBool(TRUE),
   "insecure-skip-tls-verify" :> RawOther}

CertificateAuthorityParts ==
  {EmptyMap} \cup
  {"certificate-authority" :> RawStr(f) :
     f \in {"/pki/ca.crt", "/pki/gone.crt", "/pki"}}

CertificateAuthorityDataParts ==
  {EmptyMap} \cup
  {"certificate-authority-data" :> RawStr(d) :
     d \in ValidBase64 \cup InvalidBase64}

RawClusters ==
  {RawMap(s @@ k @@ f @@ d) :
     s \in ServerParts, k \in SkipTlsVerifyParts,
     f \in CertificateAuthorityParts, d \in CertificateAuthorityDataParts}

RawClusterContainers(n) ==
  {RawMap(("name" :> RawStr(n)) @@ ("cluster" :> c)) : c \in RawClusters}

\* Entry i of a list is named by the i-th name, so every entry of a document
\* is the target of a context of the same name.
EntryName(i) == IF i % 2 = 1 THEN "a" ELSE "b"

\* The lists of at most n containers; containers[name] are the containers
\* of that name.
RawLists(containers, n) ==
  UNION {{l \in [1..k -> UNION {containers[EntryName(i)] : i \in 1..k}] :
            \A i \in 1..k : l[i] \in containers[EntryName(i)]} : k \in 0..n}

DocContexts ==
  <<[name |-> "a",
     context |-> [cluster |-> "a", user |-> "a", namespace |-> None]]>>

RawDocument(us, cs) ==
  [current_context |-> Some("a"), contexts |-> DocContexts,
   users |-> us, clusters |-> cs]

InitLoad ==
  /\ stage = "file"
  /\ \/ raw = [path |-> ConfigPath, content |-> None]
     \/ \E us \in RawLists([n \in Names |-> RawUserContainers(n)], MaxDocUsers),
           cs \in RawLists([n \in Names |-> RawClusterContainers(n)],
                           MaxDocClusters) :
          raw = [path |-> ConfigPath, content |-> Some(RawDocument(us, cs))]
  /\ loaded = None
  /\ IdleResolve
  /\ IdleExec
  /\ IdleClient

Load ==
  /\ stage = "file"
  /\ loaded' = Some(load(raw))
  /\ IF loaded'.val.ok
       THEN config' = loaded'.val.val /\ stage' = "decoded"
       ELSE config' = config /\ stage' = "failed"
  /\ UNCHANGED <<raw, resolved, execVars, clientVars>>

InitResolve ==
  /\ stage = "decoded"
  /\ IdleLoad
  /\ IdleExec
  /\ IdleClient
  /\ \E cc \in {None} \cup {Some(n) : n \in Names},
        cs \in SeqsUpTo(ContextContainers, MaxContexts),
        us \in SeqsUpTo(Names, MaxUsers),
        ks \in SeqsUpTo(Names, MaxClusters) :
       config = ResolverConfig(cc, cs, us, ks)
  /\ resolved = None

CurrentContext ==
  /\ stage = "decoded"
  /\ resolved' = current_context(config)
  /\ stage' = "resolved"
  /\ UNCHANGED <<raw, loaded, config, execVars, clientVars>>

NextResolve == CurrentContext

SpecResolve == InitResolve /\ [][NextResolve]_vars

\* A document is loaded and, when it decodes, its current context resolved.
NextLoad == Load \/ CurrentContext

SpecLoad == InitLoad /\ [][NextLoad]_vars

(***************************************************************************)
(* Text and bytes.  A text is a sequence of characters; a character is a   *)
(* string, the non-ASCII ones named by their code point.                   *)
(***************************************************************************)
Utf8 ==
  [c \in {"a", "b", "c", "d", "h", "t", "v", "/", " ", "\n",
          "B", "e", "r", "U+00E9", "U+FFFD"} |->
     CASE c = "a" -> <<97>> [] c = "b" -> <<98>> [] c = "c" -> <<99>>
       [] c = "d" -> <<100>> [] c = "h" -> <<104>> [] c = "t" -> <<116>>
       [] c = "v" -> <<118>> [] c = "/" -> <<47>> [] c = " " -> <<32>>
       [] c = "\n" -> <<10>> [] c = "B" -> <<66>> [] c = "e" -> <<101>>
       [] c = "r" -> <<114>>
       [] c = "U+00E9" -> <<195, 169>>
       [] c = "U+FFFD" -> <<239, 191, 189>>]

CharOf(bytes) == CHOOSE c \in DOMAIN Utf8 : Utf8[c] = bytes

\* str::bytes
RECURSIVE str_bytes(_)
str_bytes(s) ==
  IF Len(s) = 0 THEN <<>> ELSE Utf8[Head(s)] \o str_bytes(Tail(s))

\* BytesFromStr: the characters' bytes, as they are.
BytesFromStr(s) == Ok(str_bytes(s))

de_str_bytes(v) ==
  IF v.kind = "str" THEN BytesFromStr(v.s) ELSE Err("invalid type")

IsContinuation(b) == b >= 128 /\ b <= 191

\* String::from_utf8_lossy over one- and two-byte sequences: a byte that
\* starts no valid sequence becomes U+FFFD.
RECURSIVE from_utf8_lossy(_)
from_utf8_lossy(bytes) ==
  IF Len(bytes) = 0 THEN <<>>
  ELSE LET b == Head(bytes) IN
    IF b < 128 THEN <<CharOf(<<b>>)>> \o from_utf8_lossy(Tail(bytes))
    ELSE IF b >= 194 /\ b <= 223 /\ Len(bytes) >= 2 /\ IsContinuation(bytes[2])
      THEN <<CharOf(<<b, bytes[2]>>)>>
             \o from_utf8_lossy(SubSeq(bytes, 3, Len(bytes)))
    ELSE <<"U+FFFD">> \o from_utf8_lossy(Tail(bytes))

\* CaptureData::stderr_str
stderr_str(run) == from_utf8_lossy(run.stderr)

\* CaptureData::success: the process exited, with status 0.
success(run) == run.exit_status.kind = "Exited" /\ run.exit_status.code = 0

(***************************************************************************)
(* The exec credential plugin: Auth::exec and From<ExecCredential>.        *)
(***************************************************************************)
ValidTimestamps == {"2019-06-01T00:00:00Z"}

\* Option<DateTime<Utc>>
de_option_datetime(v) ==
  IF v.kind = "str" /\ v.s \in ValidTimestamps THEN Ok(Some(v.s))
  ELSE Err("invalid value")

\* ExecCredentialStatus, #[serde(untagged)]: Token, then CertificateEmbedded.
ExecCredentialStatus_deserialize(v) ==
  IF v.kind # "map" THEN Err("data did not match any variant")
  ELSE LET token == Required(v.m, "token", de_string(v.m["token"]))
           expiration ==
             WithDefault(v.m, "expirationTimestamp",
                     de_option_datetime(v.m["expirationTimestamp"]), None)
           certificate ==
               Required(v.m, "clientCertificateData",
                 de_str_bytes(v.m["clientCertificateData"]))
           key == Required(v.m, "clientKeyData",
                   de_str_bytes(v.m["clientKeyData"]))
       IN IF token.ok /\ expiration.ok
            THEN Ok([tag |-> "Token", token |-> token.val,
                     expiration_timestamp |-> expiration.val])
          ELSE IF certificate.ok /\ key.ok /\ expiration.ok
            THEN Ok([tag |-> "CertificateEmbedded",
                     certificate |-> certificate.val, key |-> key.val,
                     expiration_timestamp |-> expiration.val])
          ELSE Err("data did not match any variant")

\* ExecCredential, decoded from the document the plugin wrote.
ExecCredential_deserialize(v) ==
  IF v.kind # "map" THEN Err("invalid type")
  ELSE LET api == Required(v.m, "apiVersion", de_string(v.m["apiVersion"]))
           kind == Required(v.m, "kind", de_string(v.m["kind"]))
           status == Required(v.m, "status",
                   ExecCredentialStatus_deserialize(v.m["status"]))
       IN IF ~api.ok THEN api
          ELSE IF ~kind.ok THEN kind
          ELSE IF ~status.ok THEN status
          ELSE Ok([api_version |-> api.val, kind |-> kind.val,
                   status |-> status.val])

\* A plugin run that decodes the output before it looks at the exit status.
run_plugin_decodes_first(descriptor, run) ==
  IF ~run.spawned
    THEN Err([kind |-> "AuthPluginExecError", command |-> descriptor.command])
  ELSE LET creds == ExecCredential_deserialize(run.stdout) IN
    IF ~creds.ok
      THEN Err([kind |-> "AuthPluginDeserialize",
                command |-> descriptor.command])
    ELSE IF success(run) THEN Ok(Some(creds.val))
    ELSE Err([kind |-> "AuthPluginError", command |-> descriptor.command,
              message |-> stderr_str(run)])

\* Auth::exec from the launch of the process on.  run is what the process
\* launcher does with the command: [spawned |-> FALSE] when the process
\* cannot be launched, else the exit status and the captured output.
run_plugin(descriptor, run) ==
  IF ~run.spawned
    THEN Err([kind |-> "AuthPluginExecError", command |-> descriptor.command])
  ELSE IF success(run)
    THEN LET creds == ExecCredential_deserialize(run.stdout) IN
      IF creds.ok THEN Ok(Some(creds.val))
      ELSE Err([kind |-> "AuthPluginDeserialize",
                command |-> descriptor.command])
  ELSE Err([kind |-> "AuthPluginError", command |-> descriptor.command,
            message |-> stderr_str(run)])

\* An exec that treats every Auth other than Exec as a plugin that failed.
exec_rejects_others(self, run) ==
  IF self.tag # "Exec"
    THEN [result |-> Err([kind |-> "AuthPluginError", command |-> "",
                          message |-> <<>>]),
          spawned |-> FALSE]
    ELSE [result |-> run_plugin(self.exec, run), spawned |-> TRUE]

\* Auth::exec.  The result says whether a launch was attempted.
exec(self, run) ==
  IF self.tag # "Exec" THEN [result |-> Ok(None), spawned |-> FALSE]
  ELSE [result |-> run_plugin(self.exec, run), spawned |-> TRUE]

\* A conversion that files the plugin's certificate under the wrong variant
\* and keeps the expiration with the token.
Auth_from_confused(cred) ==
  IF cred.status.tag = "Token"
    THEN [tag |-> "Token", token |-> cred.status.token,
          expiration_timestamp |-> cred.status.expiration_timestamp]
    ELSE [tag |-> "CertificateFile", certificate |-> cred.status.certificate,
          key |-> cred.status.key]

\* impl From<ExecCredential> for Auth
Auth_from(cred) ==
  IF cred.status.tag = "Token"
    THEN [tag |-> "Token", token |-> cred.status.token]
    ELSE [tag |-> "CertificateEmbedded",
          certificate |-> cred.status.certificate, key |-> cred.status.key]

\* The Auth values exec is called on.
PluginDescriptors ==
  {[api_version |-> "v1beta1", command |-> "aws-iam-authenticator",
    args |-> <<>>, env |-> EmptyMap],
   [api_version |-> "v1beta1", command |-> "gke-gcloud-auth",
    args |-> <<"token">>, env |-> ("REGION" :> "eu")]}

ConcreteAuths ==
  {[tag |-> "Plain", username |-> "admin", password |-> "secret"],
   [tag |-> "Token", token |-> <<"a", "b", "c">>],
   [tag |-> "CertificateFile", certificate |-> <<67>>, key |-> <<75>>],
   [tag |-> "CertificateEmbedded", certificate |-> <<67>>, key |-> <<75>>],
   [tag |-> "Null"]}

ExecAuths == {[tag |-> "Exec", exec |-> d] : d \in PluginDescriptors}

\* What a plugin may write on its standard output.
StatusMaps ==
  {t @@ c @@ e :
     t \in {EmptyMap, "token" :> RawStr(<<"t", "U+00E9">>)},
     c \in {EmptyMap,
            ("clientCertificateData" :> RawStr(<<"c", "U+00E9">>)) @@
              ("clientKeyData" :> RawStr(<<"d">>)),
            "clientCertificateData" :> RawStr(<<"c">>)},
     e \in {EmptyMap,
            "expirationTimestamp" :> RawStr("2019-06-01T00:00:00Z"),
            "expirationTimestamp" :> RawStr("soon")}}

PluginOutputs ==
  {RawOther,
   RawMap(("apiVersion" :> RawStr("v1beta1")) @@
          ("kind" :> RawStr("ExecCredential")))}
  \cup {RawMap(("apiVersion" :> RawStr("v1beta1")) @@
               ("kind" :> RawStr("ExecCredential")) @@
               ("status" :> RawMap(st))) : st \in StatusMaps}

ExitStatuses ==
  {[kind |-> "Exited", code |-> 0], [kind |-> "Exited", code |-> 1],
   [kind |-> "Signaled", code |-> 9]}

StderrBytes == {100, 169, 195, 255}

PluginRuns ==
  {[spawned |-> FALSE]} \cup
  [spawned : {TRUE}, exit_status : ExitStatuses, stdout : PluginOutputs,
   stderr : SeqsUpTo(StderrBytes, MaxStderr)]

InitExec ==
  /\ stage = "auth"
  /\ auth \in ConcreteAuths \cup ExecAuths
  /\ spawns = 0
  /\ capture = None
  /\ execResult = None
  /\ bridged = None
  /\ IdleLoad
  /\ IdleResolve
  /\ IdleClient

\* A call of Auth::exec.
Exec ==
  /\ stage = "auth"
  /\ \E run \in PluginRuns :
       /\ execResult' = Some(exec(auth, run).result)
       /\ spawns' = spawns + (IF exec(auth, run).spawned THEN 1 ELSE 0)
       /\ capture' = IF exec(auth, run).spawned THEN Some(run) ELSE None
  /\ stage' = "execd"
  /\ UNCHANGED <<auth, bridged, loadVars, resolveVars, clientVars>>

\* The caller turns the credential into an Auth.
Bridge ==
  /\ stage = "execd"
  /\ execResult.val.ok
  /\ execResult.val.val.some
  /\ bridged' = Some(Auth_from(execResult.val.val.val))
  /\ stage' = "bridged"
  /\ UNCHANGED <<auth, spawns, capture, execResult, loadVars, resolveVars,
                 clientVars>>

NextExec == Exec \/ Bridge

SpecExec == InitExec /\ [][NextExec]_vars

(***************************************************************************)
(* The client: KubernetesClient::new, get and post.                        *)
(***************************************************************************)

\* A trim that removes one trailing character only.
trim_end_once(s, c) ==
  IF Len(s) > 0 /\ s[Len(s)] = c THEN SubSeq(s, 1, Len(s) - 1) ELSE s

\* str::trim_end_matches with a one-character pattern
RECURSIVE trim_end_matches(_, _)
trim_end_matches(s, c) ==
  IF Len(s) > 0 /\ s[Len(s)] = c
    THEN trim_end_matches(SubSeq(s, 1, Len(s) - 1), c)
    ELSE s

\* str::trim_start_matches with a one-character pattern
RECURSIVE trim_start_matches(_, _)
trim_start_matches(s, c) ==
  IF Len(s) > 0 /\ s[1] = c THEN trim_start_matches(Tail(s), c) ELSE s

\* Auth::token
token(self) == IF self.tag = "Token" THEN Some(self.token) ELSE None

\* A header value without the space after the scheme.
bearer_unspaced(t) == <<"B", "e", "a", "r", "e", "r">> \o t

\* format!("Bearer {}", token)
bearer(t) == <<"B", "e", "a", "r", "e", "r", " ">> \o t

\* HeaderValue::from_str: every byte is a tab or is visible (32 and above,
\* not 127).
HeaderValue_from_str(s) ==
  IF \A i \in DOMAIN str_bytes(s) :
       LET b == str_bytes(s)[i] IN (b >= 32 /\ b # 127) \/ b = 9
    THEN Ok(s)
    ELSE Err("failed to parse header value")

\* The transport library's PEM parsers.  In the byte material of the
\* contexts considered, the byte 67 stands for a PEM certificate block and
\* the byte 75 for a PEM private key block; any other byte is not PEM.
Identity_from_pem(blob) ==
  IF /\ \A i \in DOMAIN blob : blob[i] \in {67, 75}
     /\ \E i \in DOMAIN blob : blob[i] = 67
     /\ \E i \in DOMAIN blob : blob[i] = 75
    THEN Ok(blob) ELSE Err("invalid identity")

Certificate_from_pem(bytes) ==
  IF Len(bytes) > 0 /\ \A i \in DOMAIN bytes : bytes[i] = 67
    THEN Ok(bytes) ELSE Err("invalid certificate")

\* Auth::identity
identity(self) ==
  IF self.tag \in {"CertificateFile", "CertificateEmbedded"}
    THEN LET pem == Identity_from_pem(self.certificate \o self.key) IN
      IF pem.ok THEN Ok(Some(pem.val))
      ELSE Err([kind |-> "InvalidIdentity"])
    ELSE Ok(None)

\* The root certificates new adds for the cluster's certificate authority.
root_certificates(cluster) ==
  IF ~cluster.certificate_authority.some THEN Ok(<<>>)
  ELSE LET ca == cluster.certificate_authority.val
           cert == Certificate_from_pem(ca.certificate)
       IN IF cert.ok THEN Ok(<<cert.val>>)
          ELSE Err([kind |-> "InvalidCertificate",
                    context |-> IF ca.tag = "File"
                                  THEN "certificate-authority"
                                  ELSE "certificate-authority-data"])

\* The default headers new builds.
default_headers(context) ==
  IF token(context.auth).some
    THEN LET value == HeaderValue_from_str(bearer(token(context.auth).val)) IN
      IF value.ok THEN Ok("authorization" :> value.val)
      ELSE Err([kind |-> "InvalidAuthHeader", message |-> value.err])
    ELSE Ok(EmptyMap)

\* The body of KubernetesClient::new.  transportOk is whether
\* ClientBuilder::build succeeds.
build_client(context, transportOk) ==
  LET server == trim_end_matches(context.cluster.server, "/")
      headers == default_headers(context)
      ident == identity(context.auth)
      roots == root_certificates(context.cluster)
  IN IF ~headers.ok THEN headers
     ELSE IF ~ident.ok THEN ident
     ELSE IF ~roots.ok THEN roots
     ELSE IF ~transportOk THEN Err([kind |-> "ReqwestInit"])
     ELSE Ok([server |-> server,
              namespace |-> context.namespace,
              auth |-> context.auth,
              client |-> [default_headers |-> headers.val,
                          identity |-> ident.val,
                          root_certificates |-> roots.val]])

\* A new that runs the plugin of an Exec before it builds the client.
new_runs_plugin(context, transportOk) ==
  [result |-> build_client(context, transportOk),
   spawned |-> context.auth.tag = "Exec"]

\* KubernetesClient::new.  It makes no call of Auth::exec, so it attempts
\* no launch, whatever the Auth.
new(context, transportOk) ==
  [result |-> build_client(context, transportOk), spawned |-> FALSE]

\* The URL get and post format: "{}/{}" of the server and the path.
url(self, path) == self.server \o <<"/">> \o trim_start_matches(path, "/")

\* The contexts new is applied to.
ClientAuths ==
  ConcreteAuths \cup ExecAuths \cup
  {[tag |-> "Token", token |-> <<"a", "\n">>],
   [tag |-> "Token", token |-> <<"U+00E9">>],
   [tag |-> "CertificateEmbedded", certificate |-> <<67>>, key |-> <<0>>]}

CertificateAuthorities ==
  {None} \cup
  {Some([tag |-> t, certificate |-> c]) :
     t \in {"File", "Embedded"}, c \in {<<67>>, <<0>>}}

Servers == SeqsUpTo({"h", "/"}, MaxServer)

Paths == SeqsUpTo({"v", "/"}, MaxPath)

InitClient ==
  /\ stage = "context"
  /\ \E a \in ClientAuths, s \in Servers, ca \in CertificateAuthorities,
        ns \in {"default"} \cup Namespaces :
       ctx = [auth |-> a, namespace |-> ns,
              cluster |-> [server |-> s, insecure_skip_tls_verify |-> FALSE,
                           certificate_authority |-> ca]]
  /\ transport \in BOOLEAN
  /\ client = None
  /\ request = None
  /\ IdleExec
  /\ IdleLoad
  /\ IdleResolve

New ==
  /\ stage = "context"
  /\ client' = Some(new(ctx, transport).result)
  /\ spawns' = spawns + (IF new(ctx, transport).spawned THEN 1 ELSE 0)
  /\ stage' = IF new(ctx, transport).result.ok THEN "built" ELSE "refused"
  /\ UNCHANGED <<ctx, transport, request, auth, capture, execResult, bridged,
                 loadVars, resolveVars>>

Get ==
  /\ stage \in {"built", "requested"}
  /\ \E path \in Paths :
       request' = Some([method |-> "GET", path |-> path,
                        url |-> url(client.val.val, path)])
  /\ stage' = "requested"
  /\ UNCHANGED <<ctx, transport, client, execVars, loadVars, resolveVars>>

Post ==
  /\ stage \in {"built", "requested"}
  /\ \E path \in Paths :
       request' = Some([method |-> "POST", path |-> path,
                        url |-> url(client.val.val, path)])
  /\ stage' = "requested"
  /\ UNCHANGED <<ctx, transport, client, execVars, loadVars, resolveVars>>

NextClient == New \/ Get \/ Post

SpecClient == InitClient /\ [][NextClient]_vars

(***************************************************************************)
(* Properties of the client.                                               *)
(***************************************************************************)
Built == client.some /\ client.val.ok

Headers == client.val.val.client.default_headers

\* The characters a header value cannot hold.
ControlCharacters == {"\n"}

\* C8: a built client has an Authorization default header exactly when the
\* Auth is Token, and its value is "Bearer " followed by the token; a Token
\* whose header value holds an invalid character makes new fail with
\* InvalidAuthHeader.
C8_AuthorizationHeader ==
  /\ Built =>
       /\ ("authorization" \in DOMAIN Headers) <=> (ctx.auth.tag = "Token")
       /\ ctx.auth.tag = "Token" =>
            Headers["authorization"] =
              <<"B", "e", "a", "r", "e", "r", " ">> \o ctx.auth.token
       /\ DOMAIN Headers \subseteq {"authorization"}
  /\ (/\ client.some
      /\ ctx.auth.tag = "Token"
      /\ \E i \in DOMAIN ctx.auth.token :
           ctx.auth.token[i] \in ControlCharacters) =>
       /\ ~client.val.ok
       /\ client.val.err.kind = "InvalidAuthHeader"

\* A client built for the token abc.
C8_Witness ==
  /\ Built
  /\ ctx.auth.tag = "Token"
  /\ Headers["authorization"] =
       <<"B", "e", "a", "r", "e", "r", " ", "a", "b", "c">>

\* text is base with every trailing slash removed.
StripsTrailing(text, base) ==
  /\ \E k \in 0..Len(text) : text = base \o Repeat("/", k)
  /\ Len(base) > 0 => base[Len(base)] # "/"

\* text is rest with every leading slash removed.
StripsLeading(text, rest) ==
  /\ \E k \in 0..Len(text) : text = Repeat("/", k) \o rest
  /\ Len(rest) > 0 => rest[1] # "/"

\* C9: the client stores the server without its trailing slashes, and get
\* and post both target the stored server, one slash, and the path without
\* its leading slashes; a request leaves the stored server as it is.
C9_ServerAndUrl ==
  /\ Built => StripsTrailing(ctx.cluster.server, client.val.val.server)
  /\ request.some =>
       /\ Built
       /\ request.val.method \in {"GET", "POST"}
       /\ \E rest \in Paths :
            /\ StripsLeading(request.val.path, rest)
            /\ request.val.url = client.val.val.server \o <<"/">> \o rest

\* A post of a path with a leading slash, on a server with two trailing
\* slashes.
C9_Witness ==
  /\ Built
  /\ request.some
  /\ request.val.method = "POST"
  /\ ctx.cluster.server = <<"h", "/", "/">>
  /\ request.val.path = <<"/", "v">>
  /\ request.val.url = <<"h", "/", "v">>

\* C10: new launches no process.  For an Auth that is Exec, Plain or Null,
\* when the certificate authority parses and the transport builds, it
\* returns a client with no Authorization header and no identity, that
\* holds a copy of the Auth.
C10_NewNeverRunsPlugin ==
  /\ spawns = 0
  /\ (/\ client.some
      /\ ctx.auth.tag \in {"Exec", "Plain", "Null"}
      /\ ctx.cluster.certificate_authority.some =>
           Certificate_from_pem(
             ctx.cluster.certificate_authority.val.certificate).ok
      /\ transport) =>
       /\ client.val.ok
       /\ "authorization" \notin DOMAIN Headers
       /\ client.val.val.client.identity = None
       /\ client.val.val.auth = ctx.auth

\* A client built for an Exec that no plugin run has resolved, with a
\* certificate authority.
C10_Witness ==
  /\ Built
  /\ ctx.auth.tag = "Exec"
  /\ ctx.cluster.certificate_authority.some
  /\ client.val.val.auth.tag = "Exec"
  /\ spawns = 0

(***************************************************************************)
(* Properties of the exec credential plugin.                               *)
(***************************************************************************)
ExecOutcome == execResult.val

\* The text is the bytes: encoding it gives the bytes back.
Verbatim(text, bytes) == str_bytes(text) = bytes

RECURSIVE IsUtf8(_)
IsUtf8(bytes) ==
  \/ Len(bytes) = 0
  \/ Head(bytes) < 128 /\ IsUtf8(Tail(bytes))
  \/ /\ Len(bytes) >= 2
     /\ bytes[1] = 195
     /\ bytes[2] = 169
     /\ IsUtf8(SubSeq(bytes, 3, Len(bytes)))

\* C4: Auth::exec on an Exec variant ends in exactly one of four ways: the
\* process could not be launched (AuthPluginExecError); it ran and did not
\* exit with 0 (AuthPluginError with the command and the text of the
\* standard error, the standard output not decoded); it exited with 0 and
\* the output does not decode (AuthPluginDeserialize with the command); it
\* exited with 0 and the output decodes (the credential).
C4_ExecOutcomes ==
  (stage # "auth" /\ auth.tag = "Exec") =>
    /\ capture.some
    /\ LET run == capture.val
           command == auth.exec.command
       IN IF ~run.spawned
            THEN ExecOutcome =
                   Err([kind |-> "AuthPluginExecError", command |-> command])
          ELSE IF ~(run.exit_status.kind = "Exited" /\ run.exit_status.code = 0)
            THEN /\ ~ExecOutcome.ok
                 /\ ExecOutcome.err.kind = "AuthPluginError"
                 /\ ExecOutcome.err.command = command
                 /\ ExecOutcome.err.message = from_utf8_lossy(run.stderr)
                 /\ IsUtf8(run.stderr) =>
                      Verbatim(ExecOutcome.err.message, run.stderr)
          ELSE IF ~ExecCredential_deserialize(run.stdout).ok
            THEN ExecOutcome =
                   Err([kind |-> "AuthPluginDeserialize", command |-> command])
          ELSE /\ ExecOutcome.ok
               /\ ExecOutcome.val.some
               /\ ExecOutcome.val.val =
                    ExecCredential_deserialize(run.stdout).val

\* A plugin that ran, failed, wrote text on its standard error and an
\* undecodable document on its standard output.
C4_Witness ==
  /\ stage = "execd"
  /\ auth.tag = "Exec"
  /\ capture.some
  /\ capture.val.spawned
  /\ capture.val.exit_status.code = 1
  /\ capture.val.stdout = RawOther
  /\ capture.val.stderr = <<100, 100>>
  /\ ~ExecOutcome.ok
  /\ ExecOutcome.err.message = <<"d", "d">>

\* C5: the Auth made from the credential of a successful plugin run is
\* Token with the plugin's token, or CertificateEmbedded with the plugin's
\* certificate and key; it holds nothing of the expiration timestamp and is
\* never Exec, Plain, CertificateFile or Null.
C5_BridgeMapsCredential ==
  stage = "bridged" =>
    LET status == ExecOutcome.val.val.status
        emitted == capture.val.stdout.m["status"].m
    IN /\ bridged.some
       /\ status.tag = "Token" =>
            /\ bridged.val = [tag |-> "Token", token |-> status.token]
            /\ bridged.val.token = emitted["token"].s
       /\ status.tag = "CertificateEmbedded" =>
            /\ bridged.val =
                 [tag |-> "CertificateEmbedded",
                  certificate |-> status.certificate, key |-> status.key]
            /\ bridged.val.certificate =
                 str_bytes(emitted["clientCertificateData"].s)
            /\ bridged.val.key = str_bytes(emitted["clientKeyData"].s)
       /\ bridged.val.tag \in {"Token", "CertificateEmbedded"}

\* A certificate credential that carried an expiration timestamp has been
\* turned into an Auth.
C5_Witness ==
  /\ stage = "bridged"
  /\ ExecOutcome.val.val.status.tag = "CertificateEmbedded"
  /\ ExecOutcome.val.val.status.expiration_timestamp.some
  /\ bridged.val.tag = "CertificateEmbedded"
  /\ bridged.val.certificate = <<99, 195, 169>>

\* C6: on an Auth that is not Exec, Auth::exec launches no process, returns
\* Ok(None), which is neither a credential nor an error, and leaves the
\* Auth as it is.
C6_NotApplicable ==
  [][(stage = "auth" /\ auth.tag # "Exec") =>
       /\ execResult' = Some(Ok(None))
       /\ execResult'.val.ok
       /\ ~execResult'.val.val.some
       /\ spawns' = spawns
       /\ capture' = None
       /\ auth' = auth]_vars

\* exec has returned on a Token.
C6_Witness ==
  /\ stage = "execd"
  /\ auth.tag = "Token"
  /\ execResult = Some(Ok(None))
  /\ spawns = 0

(***************************************************************************)
(* Properties of the load.                                                 *)
(***************************************************************************)
DocUserMaps ==
  {raw.content.val.users[i].m["user"].m :
     i \in {j \in DOMAIN raw.content.val.users :
              /\ raw.content.val.users[j].kind = "map"
              /\ "user" \in DOMAIN raw.content.val.users[j].m
              /\ raw.content.val.users[j].m["user"].kind = "map"}}

DocClusterMaps ==
  {raw.content.val.clusters[i].m["cluster"].m :
     i \in {j \in DOMAIN raw.content.val.clusters :
              /\ raw.content.val.clusters[j].kind = "map"
              /\ "cluster" \in DOMAIN raw.content.val.clusters[j].m
              /\ raw.content.val.clusters[j].m["cluster"].kind = "map"}}

\* The key k of m names a file that cannot be opened or read.
NamesBadFile(m, k) ==
  /\ k \in DOMAIN m
  /\ m[k].kind = "str"
  /\ \/ m[k].s \notin DOMAIN FileSystem
     \/ ~FileSystem[m[k].s].readable

\* The key k of m holds text that is not base64.
HoldsBadBase64(m, k) ==
  /\ k \in DOMAIN m
  /\ m[k].kind = "str"
  /\ m[k].s \in InvalidBase64

DocHasUndecodableBytes ==
  \/ \E m \in DocUserMaps :
       \/ NamesBadFile(m, "client-certificate")
       \/ NamesBadFile(m, "client-key")
       \/ HoldsBadBase64(m, "client-certificate-data")
       \/ HoldsBadBase64(m, "client-key-data")
  \/ \E m \in DocClusterMaps :
       \/ NamesBadFile(m, "certificate-authority")
       \/ HoldsBadBase64(m, "certificate-authority-data")

LoadFailedToDeserialize ==
  /\ loaded.some
  /\ ~loaded.val.ok
  /\ loaded.val.err.kind = "ConfigDeserialize"
  /\ loaded.val.err.path = raw.path

\* C3: a Byte Material field that names a file that cannot be opened or read,
\* or that holds invalid base64, fails the load of the whole document with a
\* decode error; the load never succeeds with the entry decoded as another
\* variant.
C3_FailFast ==
  (loaded.some /\ raw.content.some /\ DocHasUndecodableBytes)
    => LoadFailedToDeserialize

\* The credential representations whose keys a user map holds.
Representations(m) ==
  {r \in {"Plain", "Token", "CertificateFile", "CertificateEmbedded", "Exec"} :
     \/ r = "Plain" /\ {"username", "password"} \cap DOMAIN m # {}
     \/ r = "Token" /\ "token" \in DOMAIN m
     \/ r = "CertificateFile"
          /\ {"client-certificate", "client-key"} \cap DOMAIN m # {}
     \/ r = "CertificateEmbedded"
          /\ {"client-certificate-data", "client-key-data"} \cap DOMAIN m # {}
     \/ r = "Exec" /\ "exec" \in DOMAIN m}

DocHasBothOfExclusivePair ==
  \/ \E m \in DocClusterMaps :
       {"certificate-authority", "certificate-authority-data"}
         \subseteq DOMAIN m
  \/ \E m \in DocUserMaps : Cardinality(Representations(m)) >= 2

\* C7: a document in which both members of a mutually exclusive pair are
\* present fails the whole load with a ConfigDeserialize error that names the
\* path of the document; it is never loaded with one of the two chosen.
C7_ExclusivePairRejected ==
  (loaded.some /\ raw.content.some /\ DocHasBothOfExclusivePair)
    => LoadFailedToDeserialize

(***************************************************************************)
(* Properties of the resolution.                                           *)
(***************************************************************************)
HasEntry(list, n) == \E i \in DOMAIN list : list[i].name = n

\* The first entry of the list that is named n.
FirstEntry(list, n) ==
  list[CHOOSE i \in DOMAIN list :
         /\ list[i].name = n
         /\ \A j \in 1..(i - 1) : list[j].name # n]

SelectedContext ==
  FirstEntry(config.contexts, config.current_context.val).context

\* The current context names a context, and the first context of that name
\* names a user and a cluster that both exist.
Resolvable ==
  /\ config.current_context.some
  /\ HasEntry(config.contexts, config.current_context.val)
  /\ HasEntry(config.users, SelectedContext.user)
  /\ HasEntry(config.clusters, SelectedContext.cluster)

\* C1: when the current context, its user and its cluster all exist, the
\* resolution returns a ResolvedContext whose namespace is the context's or
\* "default", and whose auth, cluster and context are those of the first
\* entries of the respective names.
C1_ResolvesFirstMatch ==
  (stage = "resolved" /\ Resolvable) =>
    /\ resolved.some
    /\ resolved.val.namespace =
         (IF SelectedContext.namespace.some
            THEN SelectedContext.namespace.val ELSE "default")
    /\ resolved.val.auth =
         FirstEntry(config.users, SelectedContext.user).user.auth
    /\ resolved.val.cluster =
         FirstEntry(config.clusters, SelectedContext.cluster).cluster

\* A resolution that succeeded although the names of the contexts, of the
\* users and of the clusters are all duplicated, with the context's namespace
\* unset.
C1_Witness ==
  /\ stage = "resolved"
  /\ Resolvable
  /\ resolved.some
  /\ resolved.val.namespace = "default"
  /\ Len(config.contexts) = 2
  /\ config.contexts[1].name = config.contexts[2].name
  /\ config.contexts[1].context # config.contexts[2].context
  /\ Len(config.users) = 2
  /\ config.users[1].name = config.users[2].name
  /\ Len(config.clusters) = 2
  /\ config.clusters[1].name = config.clusters[2].name

\* C2: when the current context is absent, or names no context, or the
\* selected context names an absent user or an absent cluster, the
\* resolution returns None.
C2_MissYieldsNone ==
  (stage = "resolved" /\ ~Resolvable) => resolved = None

\* A resolution whose context and user exist and whose cluster does not,
\* in a document that has other clusters.
C2_Witness ==
  /\ stage = "resolved"
  /\ config.current_context.some
  /\ HasEntry(config.contexts, config.current_context.val)
  /\ HasEntry(config.users, SelectedContext.user)
  /\ ~HasEntry(config.clusters, SelectedContext.cluster)
  /\ Len(config.clusters) > 0
  /\ resolved = None

====
